---- MODULE Spec2Model ----
(***************************************************************************)
(* Reliability middleware of workflow-builder (src/lib/retry.ts):          *)
(* retryWithBackoff, CircuitBreaker, processBatch, PromisePool,            *)
(* withTimeout, debounce and throttle, each as a state machine of its      *)
(* await points and timer callbacks, and their composition in              *)
(* processWithGemini (src/lib/gemini.ts).                                  *)
(***************************************************************************)
EXTENDS Integers, Sequences, FiniteSets, TLC

VARIABLES
    \* retryWithBackoff: one run
    config, attempt, lastError, retryPc, opCalls, retryResult, delays, onRetryCalls,
    retryTrace,
    \* CircuitBreaker: one instance and the execute calls made on it
    failureThreshold, recoveryTimeMs, successThreshold,
    failures, lastFailureTime, state, now, calls, invoked, history, overlapped,
    halfOpenFailAt,
    \* PromisePool: one instance and the add calls made on it
    concurrency, running, adds, tasks, waitQueue, wokenQueue, startOrder,
    \* processBatch: one run
    items, options, batchI, results, completed, itemPc, batchPromises, sems,
    progress, completionOrder, processorCalls, batchPc, batchResult,
    \* withTimeout: one call
    timeoutMs, timeoutMessage, wtNow, promise, wtTimer, wtResult, wtEvents,
    \* debounce: one wrapper and the calls made on it
    waitMs, dbNow, dbTimers, timeoutId, dbCalls, dbInvocations,
    \* throttle: one wrapper and the calls made on it
    limitMs, thNow, inThrottle, thTimers, thCalls, thInvocations,
    \* processWithGemini: the retry runs of the calls made through the module's
    \* circuit breaker, and the pacing state of executeGroqRequest
    runs, lastApiCall, requests

retryVars == <<config, attempt, lastError, retryPc, opCalls, retryResult, delays, onRetryCalls,
               retryTrace>>
breakerVars == <<failureThreshold, recoveryTimeMs, successThreshold, failures,
                 lastFailureTime, state, now, calls, invoked, history, overlapped,
                 halfOpenFailAt>>
poolVars == <<concurrency, running, adds, tasks, waitQueue, wokenQueue, startOrder>>
batchVars == <<items, options, batchI, results, completed, itemPc, batchPromises, sems,
               progress, completionOrder, processorCalls, batchPc, batchResult>>
timeoutVars == <<timeoutMs, timeoutMessage, wtNow, promise, wtTimer, wtResult, wtEvents>>
debounceVars == <<waitMs, dbNow, dbTimers, timeoutId, dbCalls, dbInvocations>>
throttleVars == <<limitMs, thNow, inThrottle, thTimers, thCalls, thInvocations>>
geminiVars == <<runs, lastApiCall, requests>>
vars == <<retryVars, breakerVars, poolVars, batchVars, timeoutVars, debounceVars,
          throttleVars, geminiVars>>

----------------------------------------------------------------------------
(* Strings are sequences of characters, so that String.prototype.includes  *)
(* is a search and not an equality.                                        *)

S_ECONNRESET == <<"E", "C", "O", "N", "N", "R", "E", "S", "E", "T">>

S_ENOTFOUND == <<"E", "N", "O", "T", "F", "O", "U", "N", "D">>

S_ECONNREFUSED == <<"E", "C", "O", "N", "N", "R", "E", "F", "U", "S", "E", "D">>

S_ETIMEDOUT == <<"E", "T", "I", "M", "E", "D", "O", "U", "T">>

S_rate_limit_exceeded == <<"r", "a", "t", "e", "_", "l", "i", "m", "i", "t", "_", "e", "x", "c", "e", "e", "d", "e", "d">>

S_service_unavailable == <<"s", "e", "r", "v", "i", "c", "e", "_", "u", "n", "a", "v", "a", "i", "l", "a", "b", "l", "e">>

S_timeout == <<"t", "i", "m", "e", "o", "u", "t">>

S_OperationTimedOut == <<"O", "p", "e", "r", "a", "t", "i", "o", "n", " ", "t", "i", "m", "e", "d", " ", "o", "u", "t">>

S_AIRequestTimedOut == <<"A", "I", " ", "r", "e", "q", "u", "e", "s", "t", " ", "t", "i", "m", "e", "d", " ", "o", "u", "t">>

S_Error == <<"E", "r", "r", "o", "r">>

S_InvalidInput == <<"I", "n", "v", "a", "l", "i", "d", " ", "i", "n", "p", "u", "t">>

S_readECONNRESET == <<"r", "e", "a", "d", " ", "E", "C", "O", "N", "N", "R", "E", "S", "E", "T">>

S_NoSpecificError == <<"O", "p", "e", "r", "a", "t", "i", "o", "n", " ", "f", "a", "i", "l", "e", "d", " ", "w", "i", "t", "h", "o", "u", "t", " ", "s", "p", "e", "c", "i", "f", "i", "c", " ", "e", "r", "r", "o", "r">>

S_ServiceError == <<"S", "e", "r", "v", "i", "c", "e", " ", "e", "r", "r", "o", "r">>

S_CircuitOpen == <<"C", "i", "r", "c", "u", "i", "t", " ", "b", "r", "e", "a", "k", "e", "r", " ", "i", "s", " ", "o", "p", "e", "n">>

\* s.includes(t)
Includes(s, t) ==
    \E i \in 0..(Len(s) - Len(t)) : SubSeq(s, i + 1, i + Len(t)) = t

----------------------------------------------------------------------------
(* retryWithBackoff                                                        *)

MaxAttempts == 4

\* the default retryCondition's list of signatures
retryableErrors ==
    {S_ECONNRESET, S_ENOTFOUND, S_ECONNREFUSED, S_ETIMEDOUT,
     S_rate_limit_exceeded, S_service_unavailable}

DefaultRetryCondition(error) ==
    \E errorType \in retryableErrors :
        Includes(error.message, errorType) \/ Includes(error.name, errorType)

\* String.prototype.toLowerCase, character by character
LowerOf(ch) ==
    CASE ch = "A" -> "a"
      [] ch = "B" -> "b"
      [] ch = "C" -> "c"
      [] ch = "D" -> "d"
      [] ch = "E" -> "e"
      [] ch = "F" -> "f"
      [] ch = "G" -> "g"
      [] ch = "H" -> "h"
      [] ch = "I" -> "i"
      [] ch = "J" -> "j"
      [] ch = "K" -> "k"
      [] ch = "L" -> "l"
      [] ch = "M" -> "m"
      [] ch = "N" -> "n"
      [] ch = "O" -> "o"
      [] ch = "P" -> "p"
      [] ch = "Q" -> "q"
      [] ch = "R" -> "r"
      [] ch = "S" -> "s"
      [] ch = "T" -> "t"
      [] ch = "U" -> "u"
      [] ch = "V" -> "v"
      [] ch = "W" -> "w"
      [] ch = "X" -> "x"
      [] ch = "Y" -> "y"
      [] ch = "Z" -> "z"
      [] OTHER -> ch

ToLowerCase(s) == [i \in 1..Len(s) |-> LowerOf(s[i])]

\* the retryableErrors of processWithGemini's retryCondition
geminiRetryableErrors ==
    {S_rate_limit_exceeded, S_service_unavailable, S_timeout, S_ECONNRESET, S_ETIMEDOUT}

\* error.message.toLowerCase().includes(errorType.toLowerCase())
GeminiRetryCondition(error) ==
    \E errorType \in geminiRetryableErrors :
        Includes(ToLowerCase(error.message), ToLowerCase(errorType))

\* config.retryCondition?.(lastError): the default, processWithGemini's
\* predicate, a caller's predicate that refuses or accepts everything, or an
\* explicit undefined (falsy result)
RetryConditions == {"default", "gemini", "never", "always", "undefined"}

RetryCondition(cfg, error) ==
    CASE cfg.retryCondition = "default" -> DefaultRetryCondition(error)
      [] cfg.retryCondition = "gemini" -> GeminiRetryCondition(error)
      [] cfg.retryCondition = "always" -> TRUE
      [] OTHER -> FALSE

\* What an invocation of the operation can raise: Error objects, among them
\* the timeout errors of withTimeout, and values that are no Error (a thrown
\* string). id tells the objects apart: the
\* value raised by the k-th invocation has id k, an object the executor
\* creates has id 0.
Thrown(k) ==
    {[isError |-> TRUE, name |-> S_Error, message |-> m, id |-> k] :
        m \in {S_readECONNRESET, S_InvalidInput, S_OperationTimedOut,
               S_AIRequestTimedOut}}
    \cup
    {[isError |-> FALSE, name |-> <<>>, message |-> m, id |-> k] :
        m \in {S_ETIMEDOUT}}

\* mutant of ToError: every raised value is wrapped
ToError_AlwaysWraps(error) ==
    [isError |-> TRUE, name |-> S_Error, message |-> error.message, id |-> 0]

\* error instanceof Error ? error : new Error(String(error))
ToError(error) ==
    IF error.isError THEN error
    ELSE [isError |-> TRUE, name |-> S_Error, message |-> error.message, id |-> 0]

\* let lastError = new Error('Operation failed without specific error')
InitialLastError ==
    [isError |-> TRUE, name |-> S_Error, message |-> S_NoSpecificError, id |-> 0]

RECURSIVE Pow(_, _)
Pow(b, e) == IF e = 0 THEN 1 ELSE b * Pow(b, e - 1)

Min(a, b) == IF a <= b THEN a ELSE b

\* mutant of ExponentialDelay: the delay is not capped
ExponentialDelay_NoCap(cfg, a) ==
    cfg.baseDelayMs * Pow(cfg.backoffMultiplier, a - 1)

ExponentialDelay(cfg, a) ==
    Min(cfg.baseDelayMs * Pow(cfg.backoffMultiplier, a - 1), cfg.maxDelayMs)

\* Math.random() * config.jitterMs, in whole milliseconds
Jitter(cfg) == 0..cfg.jitterMs

Configs ==
    [maxAttempts : 0..MaxAttempts, baseDelayMs : {1}, maxDelayMs : {3},
     backoffMultiplier : {2}, jitterMs : {0, 2}, retryCondition : RetryConditions]

NoResult == [kind |-> "pending"]

RetryInit ==
    /\ config \in Configs
    /\ attempt = 1
    /\ lastError = InitialLastError
    /\ retryPc = "start"
    /\ opCalls = <<>>
    /\ retryResult = NoResult
    /\ delays = <<>>
    /\ onRetryCalls = <<>>
    /\ retryTrace = <<>>

\* retryTrace: what the run has done so far, in order
Event(ev, a) == [ev |-> ev, attempt |-> a]

\* the loop test and, inside the loop, the call of operation(); tr is the
\* trace up to the test
EnterLoop(a, tr) ==
    IF a <= config.maxAttempts
    THEN /\ retryPc' = "await"
         /\ opCalls' = Append(opCalls, [outcome |-> "pending"])
         /\ retryResult' = retryResult
         /\ retryTrace' = Append(tr, Event("invoke", a))
    ELSE \* loop left without break: throw lastError
         /\ retryPc' = "done"
         /\ opCalls' = opCalls
         /\ retryResult' = [kind |-> "rejected", error |-> lastError]
         /\ retryTrace' = tr

\* retryWithBackoff(operation, options) is called
RetryStart ==
    /\ retryPc = "start"
    /\ EnterLoop(attempt, retryTrace)
    /\ UNCHANGED <<config, attempt, lastError, delays, onRetryCalls>>

SetOutcome(o) == [opCalls EXCEPT ![Len(opCalls)] = o]

\* await operation() resolves: return result
OperationResolves ==
    /\ retryPc = "await"
    /\ opCalls' = SetOutcome([outcome |-> "resolved"])
    /\ retryResult' = [kind |-> "resolved"]
    /\ retryPc' = "done"
    /\ retryTrace' = Append(retryTrace, Event("settle", attempt))
    /\ UNCHANGED <<config, attempt, lastError, delays, onRetryCalls>>

\* mutants of StopRetrying: the loop stops one attempt early; the predicate
\* is not asked
StopRetrying_OneEarly(cfg, a, error) ==
    a = cfg.maxAttempts - 1 \/ ~RetryCondition(cfg, error)

StopRetrying_NoPredicate(cfg, a, error) ==
    a = cfg.maxAttempts

\* Don't retry if this is the last attempt or if error isn't retryable
StopRetrying(cfg, a, error) ==
    a = cfg.maxAttempts \/ ~RetryCondition(cfg, error)

\* mutant of OnRetryArgs: the attempt is counted from 0
OnRetryArgs_FromZero(a, error) == <<a - 1, error>>

\* config.onRetry?.(attempt, lastError)
OnRetryArgs(a, error) == <<a, error>>

\* mutant of BeforeRetry: the sleep is started first and onRetry is called
\* while it runs
BeforeRetry_SleepFirst(a) == <<Event("sleepStart", a), Event("onRetry", a)>>

\* the end of the catch block: config.onRetry?.(...); await sleep(delay)
BeforeRetry(a) == <<Event("onRetry", a), Event("sleepStart", a)>>

\* mutant of OperationRejects: sleep(delay) is not awaited, the loop goes on
\* to the next attempt at once
OperationRejects_SleepNotAwaited ==
    /\ retryPc = "await"
    /\ \E error \in Thrown(Len(opCalls)) :
        /\ lastError' = ToError(error)
        /\ IF StopRetrying(config, attempt, lastError')
           THEN /\ opCalls' = SetOutcome([outcome |-> "rejected", error |-> error])
                /\ retryPc' = "done"
                /\ retryResult' = [kind |-> "rejected", error |-> lastError']
                /\ retryTrace' = Append(retryTrace, Event("settle", attempt))
                /\ UNCHANGED <<delays, onRetryCalls, attempt>>
           ELSE /\ \E jitter \in Jitter(config) :
                     delays' = Append(delays, ExponentialDelay(config, attempt) + jitter)
                /\ onRetryCalls' = Append(onRetryCalls, OnRetryArgs(attempt, lastError'))
                /\ attempt' = attempt + 1
                /\ opCalls' = Append(SetOutcome([outcome |-> "rejected", error |-> error]),
                                     [outcome |-> "pending"])
                /\ retryPc' = "await"
                /\ retryResult' = retryResult
                /\ retryTrace' = Append(Append(retryTrace, Event("settle", attempt))
                                            \o BeforeRetry(attempt),
                                        Event("invoke", attempt + 1))
    /\ UNCHANGED config

\* await operation() rejects: the catch block
OperationRejects ==
    /\ retryPc = "await"
    /\ \E error \in Thrown(Len(opCalls)) :
        /\ opCalls' = SetOutcome([outcome |-> "rejected", error |-> error])
        /\ lastError' = ToError(error)
        /\ IF StopRetrying(config, attempt, lastError')
           THEN \* break; throw lastError
                /\ retryPc' = "done"
                /\ retryResult' = [kind |-> "rejected", error |-> lastError']
                /\ retryTrace' = Append(retryTrace, Event("settle", attempt))
                /\ UNCHANGED <<delays, onRetryCalls>>
           ELSE /\ \E jitter \in Jitter(config) :
                     delays' = Append(delays, ExponentialDelay(config, attempt) + jitter)
                /\ onRetryCalls' = Append(onRetryCalls, OnRetryArgs(attempt, lastError'))
                /\ retryPc' = "sleep"
                /\ retryResult' = retryResult
                /\ retryTrace' = Append(retryTrace, Event("settle", attempt))
                                     \o BeforeRetry(attempt)
    /\ UNCHANGED <<config, attempt>>

\* await sleep(delay) is over: attempt++, the loop test, the next call
SleepEnds ==
    /\ retryPc = "sleep"
    /\ attempt' = attempt + 1
    /\ EnterLoop(attempt + 1, Append(retryTrace, Event("sleepEnd", attempt)))
    /\ UNCHANGED <<config, lastError, delays, onRetryCalls>>

----------------------------------------------------------------------------
(* CircuitBreaker                                                          *)

MaxThreshold == 2
MaxCalls == 4
StartTime == 5
MaxTime == 9

CallIds == 1..MaxCalls

BreakerInit ==
    /\ failureThreshold \in 1..MaxThreshold
    /\ recoveryTimeMs \in {1, 2}
    /\ successThreshold \in {1, 3}
    /\ failures = 0
    /\ lastFailureTime = 0
    /\ state = "closed"
    /\ now = StartTime
    /\ calls = [c \in CallIds |-> [status |-> "new", admitted |-> "none", error |-> <<>>]]
    /\ invoked = 0
    /\ history = <<>>
    /\ overlapped = FALSE
    /\ halfOpenFailAt = -1

breakerConfig == <<failureThreshold, recoveryTimeMs, successThreshold>>

Running == {c \in CallIds : calls[c].status = "running"}

\* mutant of RecoveryElapsed: the comparison admits the last instant of the
\* recovery period
RecoveryElapsed_AtLeast == now - lastFailureTime >= recoveryTimeMs

\* Date.now() - this.lastFailureTime > this.recoveryTimeMs
RecoveryElapsed == now - lastFailureTime > recoveryTimeMs

\* the gate of execute: the state the operation is admitted in, or "gated"
\* when execute throws 'Circuit breaker is open'
Gate ==
    IF state = "open"
    THEN IF RecoveryElapsed THEN "half-open" ELSE "gated"
    ELSE state

\* execute(operation): the gate and, when it lets the call through, the
\* call of operation()
Execute(c) ==
    /\ calls[c].status = "new"
    /\ \A d \in CallIds : d < c => calls[d].status # "new"
    /\ IF Gate = "gated"
       THEN /\ calls' = [calls EXCEPT ![c] = [status |-> "gated", admitted |-> "none",
                                              error |-> S_CircuitOpen]]
            /\ history' = Append(history, "gated")
            /\ UNCHANGED <<state, invoked, overlapped>>
       ELSE /\ state' = Gate
            /\ calls' = [calls EXCEPT ![c] = [status |-> "running", admitted |-> Gate,
                                              error |-> <<>>]]
            /\ invoked' = invoked + 1
            /\ overlapped' = (overlapped \/ Running # {})
            /\ history' = history
    /\ UNCHANGED <<breakerConfig, failures, lastFailureTime, now, halfOpenFailAt>>

\* mutant of ResetsOnSuccess: one success closes the circuit only when
\* successThreshold asks for no more than one
ResetsOnSuccess_NeedsThreshold == state = "half-open" /\ successThreshold <= 1

\* this.reset() is called when the state is half-open after a success
ResetsOnSuccess == state = "half-open"

\* await operation() resolves
OperationSucceeds(c) ==
    /\ calls[c].status = "running"
    /\ IF ResetsOnSuccess
       THEN \* reset()
            /\ failures' = 0
            /\ lastFailureTime' = 0
            /\ state' = "closed"
       ELSE UNCHANGED <<failures, lastFailureTime, state>>
    /\ calls' = [calls EXCEPT ![c].status = "resolved"]
    /\ history' = Append(history, "resolved")
    /\ UNCHANGED <<breakerConfig, now, invoked, overlapped, halfOpenFailAt>>

\* mutants of StateAfterFailure: the circuit opens one failure late; the
\* circuit opens only when the count is exactly the threshold
StateAfterFailure_Late(f) == IF f > failureThreshold THEN "open" ELSE state

StateAfterFailure_Exactly(f) == IF f = failureThreshold THEN "open" ELSE state

\* recordFailure: the state after this.failures has become f
StateAfterFailure(f) == IF f >= failureThreshold THEN "open" ELSE state

\* await operation() rejects: recordFailure(), throw error
OperationFails(c) ==
    /\ calls[c].status = "running"
    /\ failures' = failures + 1
    /\ lastFailureTime' = now
    /\ state' = StateAfterFailure(failures + 1)
    /\ calls' = [calls EXCEPT ![c].status = "rejected", ![c].error = S_ServiceError]
    /\ history' = Append(history, "rejected")
    /\ halfOpenFailAt' = IF state = "half-open" THEN now ELSE halfOpenFailAt
    /\ UNCHANGED <<breakerConfig, now, invoked, overlapped>>

\* mutant of Tick: a background timer moves the open circuit to half-open
Tick_BackgroundTimer ==
    /\ now < MaxTime
    /\ now' = now + 1
    /\ state' = IF state = "open" /\ now + 1 - lastFailureTime > recoveryTimeMs
                THEN "half-open" ELSE state
    /\ UNCHANGED <<breakerConfig, failures, lastFailureTime, calls, invoked,
                   history, overlapped, halfOpenFailAt>>

\* time passes (Date.now() grows)
Tick ==
    /\ now < MaxTime
    /\ now' = now + 1
    /\ UNCHANGED <<breakerConfig, failures, lastFailureTime, state, calls, invoked,
                   history, overlapped, halfOpenFailAt>>

MaxLiveCalls == 2

LiveCallIds == 1..MaxLiveCalls

\* the callers let go of the execute calls that have settled and their
\* places are taken by calls not made yet: callers keep calling execute; the
\* record of earlier outcomes is dropped with them
Recycle ==
    /\ \E c \in LiveCallIds : calls[c].status \in {"resolved", "rejected", "gated"}
    /\ calls' = [c \in CallIds |->
                    IF calls[c].status \in {"resolved", "rejected", "gated"}
                    THEN [status |-> "new", admitted |-> "none", error |-> <<>>]
                    ELSE calls[c]]
    /\ history' = <<>>
    /\ invoked' = 0
    /\ halfOpenFailAt' = -1
    /\ UNCHANGED <<breakerConfig, failures, lastFailureTime, state, now, overlapped>>

----------------------------------------------------------------------------
(* PromisePool                                                             *)

MaxConcurrency == 2
MaxAdds == 4

AddIds == 1..MaxAdds

\* adds[a]: the add call a (a is also the task its factory makes);
\* tasks[a]: the promise the factory of a returned;
\* waitQueue: the add calls suspended at await Promise.race(this.running),
\* in the order they suspended; wokenQueue: those whose race has settled and
\* whose continuation has not run yet, in the order the continuations run.
PoolInit ==
    /\ concurrency \in 1..MaxConcurrency
    /\ running = {}
    /\ adds = [a \in AddIds |-> [pc |-> "new", waited |-> FALSE, error |-> 0]]
    /\ tasks = [a \in AddIds |-> "none"]
    /\ waitQueue = <<>>
    /\ wokenQueue = <<>>
    /\ startOrder = <<>>

\* while (this.running.size >= this.concurrency): the test on entry
MustWait == Cardinality(running) >= concurrency

\* mutant of MustWaitAgain: an if in place of the while, the test is not
\* repeated after the race
MustWaitAgain_NoRetest == FALSE

\* while (this.running.size >= this.concurrency): the test after the race
MustWaitAgain == Cardinality(running) >= concurrency

\* const promise = promiseFactory(); this.running.add(promise);
\* promise.finally(...); return promise
StartTask(a, waited) ==
    /\ tasks' = [tasks EXCEPT ![a] = "pending"]
    /\ running' = running \cup {a}
    /\ adds' = [adds EXCEPT ![a] = [pc |-> "started", waited |-> waited, error |-> 0]]
    /\ startOrder' = Append(startOrder, a)

\* add(promiseFactory) is called
Add(a) ==
    /\ adds[a].pc = "new"
    /\ \A b \in AddIds : b < a => adds[b].pc # "new"
    /\ IF MustWait
       THEN /\ adds' = [adds EXCEPT ![a].pc = "waiting", ![a].waited = TRUE]
            /\ waitQueue' = Append(waitQueue, a)
            /\ UNCHANGED <<tasks, running, startOrder>>
       ELSE /\ StartTask(a, FALSE)
            /\ UNCHANGED waitQueue
    /\ UNCHANGED <<concurrency, wokenQueue>>

\* the races of the suspended add calls settle as the promise t did
Woken(t, outcome) ==
    [k \in 1..Len(waitQueue) |-> [add |-> waitQueue[k], outcome |-> outcome, by |-> t]]

\* the promise of task t settles: its finally callback deletes it from
\* this.running, then the races it was part of settle
Settle(t, outcome) ==
    /\ tasks[t] = "pending"
    /\ tasks' = [tasks EXCEPT ![t] = outcome]
    /\ running' = running \ {t}
    /\ wokenQueue' = wokenQueue \o Woken(t, outcome)
    /\ waitQueue' = <<>>
    /\ UNCHANGED <<concurrency, adds, startOrder>>

\* the continuation of the oldest woken add call runs: the await throws
\* when the race rejected, otherwise the loop test is made again
Resume ==
    /\ wokenQueue # <<>>
    /\ LET w == Head(wokenQueue) IN
        /\ wokenQueue' = Tail(wokenQueue)
        /\ IF w.outcome = "rejected"
           THEN \* add rejects with the error of task w.by
                /\ adds' = [adds EXCEPT ![w.add].pc = "failed", ![w.add].error = w.by]
                /\ UNCHANGED <<tasks, running, startOrder, waitQueue>>
           ELSE IF MustWaitAgain
                THEN /\ waitQueue' = Append(waitQueue, w.add)
                     /\ adds' = [adds EXCEPT ![w.add].pc = "waiting"]
                     /\ UNCHANGED <<tasks, running, startOrder>>
                ELSE /\ StartTask(w.add, TRUE)
                     /\ UNCHANGED waitQueue
    /\ UNCHANGED concurrency

PoolIdle ==
    /\ concurrency = 1
    /\ running = {}
    /\ adds = [a \in AddIds |-> [pc |-> "idle", waited |-> FALSE, error |-> 0]]
    /\ tasks = [a \in AddIds |-> "none"]
    /\ waitQueue = <<>>
    /\ wokenQueue = <<>>
    /\ startOrder = <<>>

----------------------------------------------------------------------------
(* processBatch and Semaphore                                              *)

MaxItems == 3
MaxBatchSize == 2

ItemValues == {1, 2}

\* the processor of the tests: item => Promise.resolve(item * 2)
Processor(item) == item * 2

Indices == 1..Len(items)

\* batchPromises[j] is the promise of the async callback of items[j]
\* (j counts from 1; batchI is the loop variable i, which counts from 0);
\* sems[j] is the Semaphore that callback constructs.
BatchInit ==
    /\ items \in UNION {[1..n -> ItemValues] : n \in 0..MaxItems}
    /\ options \in [batchSize : 1..MaxBatchSize, concurrency : 1..MaxConcurrency]
    /\ batchI = 0
    /\ results = <<>>
    /\ completed = 0
    /\ itemPc = [j \in Indices |-> "idle"]
    /\ batchPromises = [j \in Indices |-> [kind |-> "pending"]]
    /\ sems = [j \in Indices |-> [count |-> 0, tasks |-> <<>>]]
    /\ progress = <<>>
    /\ completionOrder = <<>>
    /\ processorCalls = <<>>
    /\ batchPc = "start"
    /\ batchResult = NoResult

\* mutant of Batch: no chunks, every remaining item at once
Batch_All(i) == {j \in Indices : i < j}

\* items.slice(i, i + batchSize), as indices
Batch(i) == {j \in Indices : i < j /\ j <= i + options.batchSize}

\* Semaphore.acquire on a Semaphore(max) in state sem, called by j
Acquire(sem, max, j) ==
    IF sem.count < max
    THEN [count |-> sem.count + 1, tasks |-> sem.tasks]
    ELSE [count |-> sem.count, tasks |-> Append(sem.tasks, j)]

\* Semaphore.release: the queued task it runs takes the slot at once
Release(sem, max) ==
    IF sem.tasks # <<>> /\ sem.count - 1 < max
    THEN [count |-> sem.count, tasks |-> Tail(sem.tasks)]
    ELSE [count |-> sem.count - 1, tasks |-> sem.tasks]

\* the loop from i on, with res the results so far: batch.map(...) runs each
\* callback up to its await semaphore.acquire(), then await Promise.all;
\* or the loop ends and results is returned
LoopFrom(i, res) ==
    /\ batchI' = i
    /\ IF i < Len(items)
       THEN /\ sems' = [j \in Indices |->
                          IF j \in Batch(i)
                          THEN Acquire([count |-> 0, tasks |-> <<>>], options.concurrency, j)
                          ELSE sems[j]]
            /\ itemPc' = [j \in Indices |->
                            IF j \in Batch(i)
                            THEN IF 0 < options.concurrency THEN "acquired" ELSE "queued"
                            ELSE itemPc[j]]
            /\ batchPc' = "awaitAll"
            /\ batchResult' = batchResult
       ELSE /\ batchPc' = "done"
            /\ batchResult' = [kind |-> "resolved", value |-> res]
            /\ UNCHANGED <<sems, itemPc>>

\* processBatch(items, processor, options) is called
BatchStart ==
    /\ batchPc = "start"
    /\ LoopFrom(0, results)
    /\ UNCHANGED <<items, options, results, completed, batchPromises, progress,
                   completionOrder, processorCalls>>

\* the callback of items[j] resumes after await semaphore.acquire() and
\* calls processor(item); the callbacks resume in the order they suspended
ProcessorCall(j) ==
    /\ itemPc[j] = "acquired"
    /\ \A k \in Indices : k < j => itemPc[k] # "acquired"
    /\ itemPc' = [itemPc EXCEPT ![j] = "processing"]
    /\ processorCalls' = Append(processorCalls, j)
    /\ UNCHANGED <<items, options, batchI, results, completed, batchPromises, sems,
                   progress, completionOrder, batchPc, batchResult>>

\* semaphore.release() in the finally block of the callback of items[j]
ReleaseOf(j) ==
    LET sem == Release(sems[j], options.concurrency) IN
    /\ sems' = [sems EXCEPT ![j] = sem]

\* mutant of OnProgressArgs: the position of the item is reported in place
\* of the count of completed items
OnProgressArgs_Position(c, j) == <<j, Len(items)>>

\* onProgress?.(completed, items.length), completed being c after the
\* increment, in the callback of items[j]
OnProgressArgs(c, j) == <<c, Len(items)>>

\* await processor(item) resolves: completed++, onProgress, return result
ProcessorResolves(j) ==
    /\ itemPc[j] = "processing"
    /\ completed' = completed + 1
    /\ progress' = Append(progress, OnProgressArgs(completed + 1, j))
    /\ batchPromises' = [batchPromises EXCEPT
                            ![j] = [kind |-> "fulfilled", value |-> Processor(items[j])]]
    /\ itemPc' = [itemPc EXCEPT ![j] = "fulfilled"]
    /\ completionOrder' = Append(completionOrder, j)
    /\ ReleaseOf(j)
    /\ UNCHANGED <<items, options, batchI, results, processorCalls, batchPc, batchResult>>

\* await processor(item) rejects: the callback's promise rejects, and with
\* it Promise.all and processBatch when it is still awaiting
ProcessorRejects(j) ==
    /\ itemPc[j] = "processing"
    /\ batchPromises' = [batchPromises EXCEPT ![j] = [kind |-> "rejected", error |-> j]]
    /\ itemPc' = [itemPc EXCEPT ![j] = "rejected"]
    /\ completionOrder' = Append(completionOrder, j)
    /\ ReleaseOf(j)
    /\ IF batchPc = "awaitAll"
       THEN /\ batchPc' = "done"
            /\ batchResult' = [kind |-> "rejected", error |-> j]
       ELSE UNCHANGED <<batchPc, batchResult>>
    /\ UNCHANGED <<items, options, batchI, results, completed, progress, processorCalls>>

\* the indices of the current batch in the order they completed
CompletedOfBatch == SelectSeq(completionOrder, LAMBDA j : j \in Batch(batchI))

\* mutant of BatchResults: the values in the order the callbacks completed
BatchResults_CompletionOrder ==
    [k \in 1..Len(CompletedOfBatch) |-> batchPromises[CompletedOfBatch[k]].value]

\* const batchResults = await Promise.all(batchPromises): the values by
\* position in the batch
BatchResults ==
    [k \in 1..Cardinality(Batch(batchI)) |-> batchPromises[batchI + k].value]

\* Promise.all resolves: results.push(...batchResults), i += batchSize, and
\* the loop goes on
BatchDone ==
    /\ batchPc = "awaitAll"
    /\ \A j \in Batch(batchI) : batchPromises[j].kind = "fulfilled"
    /\ results' = results \o BatchResults
    /\ LoopFrom(batchI + options.batchSize, results')
    /\ UNCHANGED <<items, options, completed, batchPromises, progress, completionOrder,
                   processorCalls>>

BatchIdle ==
    /\ items = <<>>
    /\ options = [batchSize |-> 1, concurrency |-> 1]
    /\ batchI = 0
    /\ results = <<>>
    /\ completed = 0
    /\ itemPc = <<>>
    /\ batchPromises = <<>>
    /\ sems = <<>>
    /\ progress = <<>>
    /\ completionOrder = <<>>
    /\ processorCalls = <<>>
    /\ batchPc = "idle"
    /\ batchResult = NoResult

----------------------------------------------------------------------------
(* Timers: setTimeout(callback, ms) runs the callback no earlier than ms   *)
(* after the call and, the event loop being busy at most MaxLateness,      *)
(* no later than ms + MaxLateness after it.                                *)

MaxLateness == 1

TimerDue(due, t) == due <= t

TimerOverdue(due, t) == due + MaxLateness <= t

----------------------------------------------------------------------------
(* withTimeout                                                             *)

MaxTimeoutMs == 2
MaxWtTime == 4

\* an argument that is left out
Undefined == <<"undefined">>

\* mutant of TimeoutMessage: the caller's message is ignored
TimeoutMessage_AlwaysDefault(message) == S_OperationTimedOut

\* timeoutMessage = 'Operation timed out' (default parameter)
TimeoutMessage(message) ==
    IF message = Undefined THEN S_OperationTimedOut ELSE message

\* reject(new Error(timeoutMessage))
TimeoutRejection(message) ==
    [kind |-> "rejected",
     error |-> [isError |-> TRUE, name |-> S_Error, message |-> TimeoutMessage(message),
                id |-> 0]]

\* what the wrapped promise can settle with
PromiseOutcomes ==
    {[kind |-> "fulfilled", value |-> 42]}
    \cup {[kind |-> "rejected", error |-> e] : e \in Thrown(1)}

\* mutant of RaceSettle: the last settlement wins
RaceSettle_LastWins(current, outcome) == outcome

\* Promise.race: the returned promise takes the first settlement and
\* ignores every later one
RaceSettle(current, outcome) ==
    IF current.kind = "pending" THEN outcome ELSE current

\* withTimeout(promise, timeoutMs, timeoutMessage) has been called at time 0:
\* the timer is armed and nothing has settled
TimeoutInit ==
    /\ timeoutMs \in 1..MaxTimeoutMs
    /\ timeoutMessage \in {Undefined, S_AIRequestTimedOut}
    /\ wtNow = 0
    /\ promise = NoResult
    /\ wtTimer = "armed"
    /\ wtResult = NoResult
    /\ wtEvents = <<>>

\* the wrapped promise settles; the race reacts in the same microtask run
PromiseSettles(outcome) ==
    /\ promise.kind = "pending"
    /\ promise' = outcome
    /\ wtResult' = RaceSettle(wtResult, outcome)
    /\ wtEvents' = Append(wtEvents, [source |-> "promise", outcome |-> outcome])
    /\ UNCHANGED <<timeoutMs, timeoutMessage, wtNow, wtTimer>>

\* setTimeout(() => reject(new Error(timeoutMessage)), timeoutMs)
TimerFires ==
    /\ wtTimer = "armed"
    /\ TimerDue(timeoutMs, wtNow)
    /\ wtTimer' = "fired"
    /\ wtResult' = RaceSettle(wtResult, TimeoutRejection(timeoutMessage))
    /\ wtEvents' = Append(wtEvents, [source |-> "timer",
                                     outcome |-> TimeoutRejection(timeoutMessage)])
    /\ UNCHANGED <<timeoutMs, timeoutMessage, wtNow, promise>>

TimeoutTick ==
    /\ wtNow < MaxWtTime
    /\ ~(wtTimer = "armed" /\ TimerOverdue(timeoutMs, wtNow))
    /\ wtNow' = wtNow + 1
    /\ UNCHANGED <<timeoutMs, timeoutMessage, promise, wtTimer, wtResult, wtEvents>>

TimeoutIdle ==
    /\ timeoutMs = 0
    /\ timeoutMessage = Undefined
    /\ wtNow = 0
    /\ promise = NoResult
    /\ wtTimer = "none"
    /\ wtResult = NoResult
    /\ wtEvents = <<>>

----------------------------------------------------------------------------
(* debounce                                                                *)

MaxWaitMs == 2
MaxDebounceCalls == 3
MaxDbTime == 5

\* the arguments a call can carry
ArgValues == {"a", "b"}

\* mutant of ClearTimeout: the pending timer is left armed
ClearTimeout_Keeps(timers, id) == timers

\* clearTimeout(timeoutId): disarms the timer with this id; no effect when
\* the id is undefined (0) or the timer has fired already
ClearTimeout(timers, id) == {t \in timers : t.id # id}

\* debounce(func, waitMs) has been called: no timer, timeoutId undefined
DebounceInit ==
    /\ waitMs \in 1..MaxWaitMs
    /\ dbNow = 0
    /\ dbTimers = {}
    /\ timeoutId = 0
    /\ dbCalls = <<>>
    /\ dbInvocations = <<>>

\* a call of the wrapper: clearTimeout(timeoutId);
\* timeoutId = setTimeout(() => func(...args), waitMs)
DebouncedCall(args) ==
    /\ Len(dbCalls) < MaxDebounceCalls
    /\ LET id == Len(dbCalls) + 1
       IN /\ dbCalls' = Append(dbCalls, [time |-> dbNow, args |-> args])
          /\ dbTimers' = ClearTimeout(dbTimers, timeoutId)
                            \cup {[id |-> id, due |-> dbNow + waitMs, args |-> args]}
          /\ timeoutId' = id
    /\ UNCHANGED <<waitMs, dbNow, dbInvocations>>

\* the timer callback: () => func(...args)
DebounceTimerFires ==
    /\ \E t \in dbTimers :
          /\ TimerDue(t.due, dbNow)
          /\ \A u \in dbTimers : t.due <= u.due
          /\ dbTimers' = dbTimers \ {t}
          /\ dbInvocations' = Append(dbInvocations,
                                     [time |-> dbNow, args |-> t.args, call |-> t.id])
    /\ UNCHANGED <<waitMs, dbNow, timeoutId, dbCalls>>

DebounceTick ==
    /\ dbNow < MaxDbTime
    /\ \A t \in dbTimers : ~TimerOverdue(t.due, dbNow)
    /\ dbNow' = dbNow + 1
    /\ UNCHANGED <<waitMs, dbTimers, timeoutId, dbCalls, dbInvocations>>

DebounceIdle ==
    /\ waitMs = 0
    /\ dbNow = 0
    /\ dbTimers = {}
    /\ timeoutId = 0
    /\ dbCalls = <<>>
    /\ dbInvocations = <<>>

----------------------------------------------------------------------------
(* throttle                                                                *)

MaxLimitMs == 2
MaxThrottleCalls == 3
MaxThTime == 5

\* what func does when it is invoked
FuncOutcomes == {"returns", "throws"}

\* mutant of Admits: every call is let through
Admits_Always(flag) == TRUE

\* if (!inThrottle)
Admits(flag) == ~flag

\* throttle(func, limitMs) has been called; inThrottle is declared without a
\* value, and undefined is falsy
ThrottleInit ==
    /\ limitMs \in 1..MaxLimitMs
    /\ thNow = 0
    /\ inThrottle = FALSE
    /\ thTimers = {}
    /\ thCalls = <<>>
    /\ thInvocations = <<>>

\* a call of the wrapper:
\* if (!inThrottle) { func(...args); inThrottle = true; setTimeout(..., limitMs) }
\* An exception of func leaves the block before inThrottle is set.
ThrottledCall(args, outcome) ==
    /\ Len(thCalls) < MaxThrottleCalls
    /\ LET id == Len(thCalls) + 1
       IN IF Admits(inThrottle)
          THEN /\ thCalls' = Append(thCalls, [time |-> thNow, args |-> args,
                                              invoked |-> TRUE, func |-> outcome])
               /\ thInvocations' = Append(thInvocations,
                                          [time |-> thNow, args |-> args, call |-> id])
               /\ IF outcome = "returns"
                  THEN /\ inThrottle' = TRUE
                       /\ thTimers' = thTimers \cup {[id |-> id, due |-> thNow + limitMs]}
                  ELSE UNCHANGED <<inThrottle, thTimers>>
          ELSE /\ outcome = "returns"    \* func is not invoked: nothing to choose
               /\ thCalls' = Append(thCalls, [time |-> thNow, args |-> args,
                                              invoked |-> FALSE, func |-> "none"])
               /\ UNCHANGED <<thInvocations, inThrottle, thTimers>>
    /\ UNCHANGED <<limitMs, thNow>>

\* the timer callback: () => inThrottle = false
ThrottleTimerFires ==
    /\ \E t \in thTimers :
          /\ TimerDue(t.due, thNow)
          /\ \A u \in thTimers : t.due <= u.due
          /\ thTimers' = thTimers \ {t}
          /\ inThrottle' = FALSE
    /\ UNCHANGED <<limitMs, thNow, thCalls, thInvocations>>

ThrottleTick ==
    /\ thNow < MaxThTime
    /\ \A t \in thTimers : ~TimerOverdue(t.due, thNow)
    /\ thNow' = thNow + 1
    /\ UNCHANGED <<limitMs, inThrottle, thTimers, thCalls, thInvocations>>

ThrottleIdle ==
    /\ limitMs = 0
    /\ thNow = 0
    /\ inThrottle = FALSE
    /\ thTimers = {}
    /\ thCalls = <<>>
    /\ thInvocations = <<>>

----------------------------------------------------------------------------
(* processWithGemini and executeGroqRequest (src/lib/gemini.ts): the       *)
(* module's circuitBreaker around retryWithBackoff around the paced        *)
(* provider request. Times are in ticks of the model's clock; the          *)
(* durations of the source are scaled down.                                *)

MaxGeminiCalls == 2

GeminiCallIds == 1..MaxGeminiCalls

\* const MIN_API_INTERVAL = 100, in ticks
MIN_API_INTERVAL == 2

\* the options processWithGemini passes, merged over DEFAULT_RETRY_OPTIONS
\* (delays in ticks; the default jitter of 100 ms is below one tick)
geminiConfig ==
    [maxAttempts |-> 3, baseDelayMs |-> 1, maxDelayMs |-> 3, backoffMultiplier |-> 2,
     jitterMs |-> 0, retryCondition |-> "gemini"]

\* what a provider request can fail with: a rate limit, the timeout of
\* withTimeout, an error that is not retried
ProviderErrors ==
    {[isError |-> TRUE, name |-> S_Error, message |-> m, id |-> 0] :
        m \in {S_rate_limit_exceeded, S_AIRequestTimedOut, S_InvalidInput}}

NoRun == [pc |-> "none", attempt |-> 0, wake |-> 0]

\* no processWithGemini call has been made; lastApiCall = 0
GeminiInit ==
    /\ runs = [c \in CallIds |-> NoRun]
    /\ lastApiCall = 0
    /\ requests = <<>>

\* lastApiCall = Date.now() and the call of groq.chat.completions.create
IssueRequest(c, a) ==
    /\ lastApiCall' = now
    /\ requests' = Append(requests, [call |-> c, attempt |-> a, time |-> now])
    /\ runs' = [runs EXCEPT ![c] = [pc |-> "request", attempt |-> a, wake |-> 0]]

\* mutant of MustPace: the interval is not enforced
MustPace_Never(t, last) == FALSE

\* if (timeSinceLastCall < MIN_API_INTERVAL)
MustPace(t, last) == t - last < MIN_API_INTERVAL

\* executeGroqRequest up to its first await: the pacing test, then either
\* the pacing sleep or the request
StartAttempt(c, a) ==
    IF MustPace(now, lastApiCall)
    THEN /\ runs' = [runs EXCEPT ![c] =
                        [pc |-> "pacing", attempt |-> a,
                         wake |-> now + (MIN_API_INTERVAL - (now - lastApiCall))]]
         /\ UNCHANGED <<lastApiCall, requests>>
    ELSE IssueRequest(c, a)

\* processWithGemini: circuitBreaker.execute(() => retryWithBackoff(...)),
\* up to the first await
ProcessWithGemini(c) ==
    /\ Execute(c)
    /\ IF calls'[c].status = "running"
       THEN StartAttempt(c, 1)
       ELSE UNCHANGED <<runs, lastApiCall, requests>>

\* the pacing sleep is over
PacingEnds(c) ==
    /\ runs[c].pc = "pacing"
    /\ TimerDue(runs[c].wake, now)
    /\ IssueRequest(c, runs[c].attempt)
    /\ UNCHANGED breakerVars

\* the request returns content: the retry run resolves, and with it the
\* operation of circuitBreaker.execute
RequestSucceeds(c) ==
    /\ runs[c].pc = "request"
    /\ OperationSucceeds(c)
    /\ runs' = [runs EXCEPT ![c].pc = "done"]
    /\ UNCHANGED <<lastApiCall, requests>>

\* mutant of RequestFails: the breaker is inside the retry loop and records
\* every failed attempt
RequestFails_BreakerInside(c, error) ==
    /\ runs[c].pc = "request"
    /\ IF StopRetrying(geminiConfig, runs[c].attempt, ToError(error))
       THEN /\ OperationFails(c)
            /\ runs' = [runs EXCEPT ![c].pc = "done"]
       ELSE /\ \E jitter \in Jitter(geminiConfig) :
                 runs' = [runs EXCEPT ![c].pc = "backoff",
                                      ![c].wake = now + ExponentialDelay(geminiConfig,
                                                                         runs[c].attempt)
                                                      + jitter]
            /\ failures' = failures + 1
            /\ lastFailureTime' = now
            /\ state' = StateAfterFailure(failures + 1)
            /\ UNCHANGED <<breakerConfig, now, calls, invoked, history, overlapped,
                           halfOpenFailAt>>
    /\ UNCHANGED <<lastApiCall, requests>>

\* the request fails or times out: the catch block of retryWithBackoff; when
\* it stops retrying the run rejects, and with it the operation of
\* circuitBreaker.execute
RequestFails(c, error) ==
    /\ runs[c].pc = "request"
    /\ IF StopRetrying(geminiConfig, runs[c].attempt, ToError(error))
       THEN /\ OperationFails(c)
            /\ runs' = [runs EXCEPT ![c].pc = "done"]
       ELSE /\ \E jitter \in Jitter(geminiConfig) :
                 runs' = [runs EXCEPT ![c].pc = "backoff",
                                      ![c].wake = now + ExponentialDelay(geminiConfig,
                                                                         runs[c].attempt)
                                                      + jitter]
            /\ UNCHANGED breakerVars
    /\ UNCHANGED <<lastApiCall, requests>>

\* await sleep(delay) of retryWithBackoff is over: the next attempt
BackoffEnds(c) ==
    /\ runs[c].pc = "backoff"
    /\ TimerDue(runs[c].wake, now)
    /\ StartAttempt(c, runs[c].attempt + 1)
    /\ UNCHANGED breakerVars

\* time passes; a sleep ends at the tick it is due
GeminiTick ==
    /\ \A c \in CallIds :
          runs[c].pc \in {"pacing", "backoff"} => ~TimerDue(runs[c].wake, now)
    /\ Tick
    /\ UNCHANGED <<runs, lastApiCall, requests>>

GeminiIdle ==
    /\ runs = [c \in CallIds |-> NoRun]
    /\ lastApiCall = 0
    /\ requests = <<>>

----------------------------------------------------------------------------
(* Specifications: one per component, the others at rest                   *)

RetryIdle ==
    /\ config = [maxAttempts |-> 0, baseDelayMs |-> 1, maxDelayMs |-> 3,
                 backoffMultiplier |-> 2, jitterMs |-> 0, retryCondition |-> "default"]
    /\ attempt = 1
    /\ lastError = InitialLastError
    /\ retryPc = "idle"
    /\ opCalls = <<>>
    /\ retryResult = NoResult
    /\ delays = <<>>
    /\ onRetryCalls = <<>>
    /\ retryTrace = <<>>

BreakerIdle ==
    /\ failureThreshold = 1
    /\ recoveryTimeMs = 1
    /\ successThreshold = 1
    /\ failures = 0
    /\ lastFailureTime = 0
    /\ state = "closed"
    /\ now = 0
    /\ calls = [c \in CallIds |-> [status |-> "idle", admitted |-> "none", error |-> <<>>]]
    /\ invoked = 0
    /\ history = <<>>
    /\ overlapped = FALSE
    /\ halfOpenFailAt = -1

timerVars == <<timeoutVars, debounceVars, throttleVars>>
coreVars == <<retryVars, breakerVars, poolVars, batchVars>>

TimersIdle == TimeoutIdle /\ DebounceIdle /\ ThrottleIdle
CoreIdle == RetryIdle /\ BreakerIdle /\ PoolIdle /\ BatchIdle

othersOfRetry == <<breakerVars, poolVars, batchVars, timerVars, geminiVars>>
othersOfBreaker == <<retryVars, poolVars, batchVars, timerVars, geminiVars>>
othersOfPool == <<retryVars, breakerVars, batchVars, timerVars, geminiVars>>
othersOfBatch == <<retryVars, breakerVars, poolVars, timerVars, geminiVars>>
othersOfTimeout == <<coreVars, debounceVars, throttleVars, geminiVars>>
othersOfDebounce == <<coreVars, timeoutVars, throttleVars, geminiVars>>
othersOfThrottle == <<coreVars, timeoutVars, debounceVars, geminiVars>>
othersOfGemini == <<retryVars, poolVars, batchVars, timerVars>>

RetryStep ==
    \/ RetryStart /\ UNCHANGED othersOfRetry
    \/ OperationResolves /\ UNCHANGED othersOfRetry
    \/ OperationRejects /\ UNCHANGED othersOfRetry
    \/ SleepEnds /\ UNCHANGED othersOfRetry

BreakerStep ==
    \/ (\E c \in CallIds : Execute(c)) /\ UNCHANGED othersOfBreaker
    \/ (\E c \in CallIds : OperationSucceeds(c)) /\ UNCHANGED othersOfBreaker
    \/ (\E c \in CallIds : OperationFails(c)) /\ UNCHANGED othersOfBreaker
    \/ Tick /\ UNCHANGED othersOfBreaker

\* execute called without end, up to MaxLiveCalls calls in flight together
BreakerLiveStep ==
    \/ (\E c \in LiveCallIds : Execute(c)) /\ UNCHANGED othersOfBreaker
    \/ (\E c \in LiveCallIds : OperationSucceeds(c)) /\ UNCHANGED othersOfBreaker
    \/ (\E c \in LiveCallIds : OperationFails(c)) /\ UNCHANGED othersOfBreaker
    \/ Tick /\ UNCHANGED othersOfBreaker
    \/ Recycle /\ UNCHANGED othersOfBreaker

\* an operation that was called settles
OperationSettles ==
    (\E c \in LiveCallIds : OperationSucceeds(c) \/ OperationFails(c))
        /\ UNCHANGED othersOfBreaker

PoolStep ==
    \/ (\E a \in AddIds : Add(a)) /\ UNCHANGED othersOfPool
    \/ (\E t \in AddIds : \E outcome \in {"fulfilled", "rejected"} : Settle(t, outcome))
           /\ UNCHANGED othersOfPool
    \/ Resume /\ UNCHANGED othersOfPool

BatchStep ==
    \/ BatchStart /\ UNCHANGED othersOfBatch
    \/ (\E j \in Indices : ProcessorCall(j)) /\ UNCHANGED othersOfBatch
    \/ (\E j \in Indices : ProcessorResolves(j)) /\ UNCHANGED othersOfBatch
    \/ (\E j \in Indices : ProcessorRejects(j)) /\ UNCHANGED othersOfBatch
    \/ BatchDone /\ UNCHANGED othersOfBatch

TimeoutStep ==
    \/ (\E outcome \in PromiseOutcomes : PromiseSettles(outcome)) /\ UNCHANGED othersOfTimeout
    \/ TimerFires /\ UNCHANGED othersOfTimeout
    \/ TimeoutTick /\ UNCHANGED othersOfTimeout

DebounceStep ==
    \/ (\E args \in ArgValues : DebouncedCall(args)) /\ UNCHANGED othersOfDebounce
    \/ DebounceTimerFires /\ UNCHANGED othersOfDebounce
    \/ DebounceTick /\ UNCHANGED othersOfDebounce

ThrottleStep ==
    \/ (\E args \in ArgValues : \E outcome \in FuncOutcomes : ThrottledCall(args, outcome))
           /\ UNCHANGED othersOfThrottle
    \/ ThrottleTimerFires /\ UNCHANGED othersOfThrottle
    \/ ThrottleTick /\ UNCHANGED othersOfThrottle

GeminiStep ==
    \/ (\E c \in GeminiCallIds : ProcessWithGemini(c)) /\ UNCHANGED othersOfGemini
    \/ (\E c \in GeminiCallIds : PacingEnds(c)) /\ UNCHANGED othersOfGemini
    \/ (\E c \in GeminiCallIds : RequestSucceeds(c)) /\ UNCHANGED othersOfGemini
    \/ (\E c \in GeminiCallIds : \E error \in ProviderErrors : RequestFails(c, error))
           /\ UNCHANGED othersOfGemini
    \/ (\E c \in GeminiCallIds : BackoffEnds(c)) /\ UNCHANGED othersOfGemini
    \/ GeminiTick /\ UNCHANGED othersOfGemini

InitOfRetry == RetryInit /\ BreakerIdle /\ PoolIdle /\ BatchIdle /\ TimersIdle /\ GeminiIdle
InitOfBreaker == BreakerInit /\ RetryIdle /\ PoolIdle /\ BatchIdle /\ TimersIdle /\ GeminiIdle
InitOfPool == PoolInit /\ RetryIdle /\ BreakerIdle /\ BatchIdle /\ TimersIdle /\ GeminiIdle
InitOfBatch == BatchInit /\ RetryIdle /\ BreakerIdle /\ PoolIdle /\ TimersIdle /\ GeminiIdle
InitOfTimeout == TimeoutInit /\ CoreIdle /\ DebounceIdle /\ ThrottleIdle /\ GeminiIdle
InitOfDebounce == DebounceInit /\ CoreIdle /\ TimeoutIdle /\ ThrottleIdle /\ GeminiIdle
InitOfThrottle == ThrottleInit /\ CoreIdle /\ TimeoutIdle /\ DebounceIdle /\ GeminiIdle
InitOfGemini ==
    BreakerInit /\ GeminiInit /\ RetryIdle /\ PoolIdle /\ BatchIdle /\ TimersIdle

SpecRetry == InitOfRetry /\ [][RetryStep]_vars
SpecBreaker == InitOfBreaker /\ [][BreakerStep]_vars
SpecBreakerLive ==
    InitOfBreaker /\ [][BreakerLiveStep]_vars /\ WF_vars(OperationSettles)
SpecPool == InitOfPool /\ [][PoolStep]_vars
SpecBatch == InitOfBatch /\ [][BatchStep]_vars
SpecTimeout == InitOfTimeout /\ [][TimeoutStep]_vars
SpecDebounce == InitOfDebounce /\ [][DebounceStep]_vars
SpecThrottle == InitOfThrottle /\ [][ThrottleStep]_vars
SpecGemini == InitOfGemini /\ [][GeminiStep]_vars

----------------------------------------------------------------------------
(* Claims about retryWithBackoff                                           *)

LastCall == opCalls[Len(opCalls)]

\* every invocation so far failed with an error the predicate accepts
AlwaysFailsRetryably ==
    \A k \in 1..Len(opCalls) :
        /\ opCalls[k].outcome # "resolved"
        /\ opCalls[k].outcome = "rejected" =>
               RetryCondition(config, ToError(opCalls[k].error))

\* C1: with maxAttempts = n >= 1 and an operation that fails on every
\* invocation with an error the predicate accepts, the operation is never
\* invoked more than n times, and the run ends rejected after exactly n
\* invocations.
C1_RetryRespectsMaxAttempts ==
    (config.maxAttempts >= 1 /\ AlwaysFailsRetryably) =>
        /\ Len(opCalls) <= config.maxAttempts
        /\ retryPc = "done" =>
               /\ Len(opCalls) = config.maxAttempts
               /\ retryResult.kind = "rejected"

C1_Witness ==
    /\ retryPc = "done"
    /\ config.maxAttempts = 3
    /\ config.retryCondition = "default"
    /\ AlwaysFailsRetryably
    /\ Len(opCalls) = 3
    /\ retryResult.kind = "rejected"

\* the k-th invocation failed with an error the predicate rejects
FailsFatally(k) ==
    /\ k <= Len(opCalls)
    /\ opCalls[k].outcome = "rejected"
    /\ ~RetryCondition(config, ToError(opCalls[k].error))

\* C2: an invocation that fails with an error the predicate rejects is the
\* last one: no backoff sleep follows it, no further attempt is made and the
\* run is rejected with that error; when it is the first invocation the
\* operation is invoked exactly once in total, whatever maxAttempts >= 1 is.
C2_NonRetryableShortCircuits ==
    \A k \in 1..MaxAttempts + 1 :
        (config.maxAttempts >= 1 /\ FailsFatally(k)) =>
            /\ Len(opCalls) = k
            /\ Len(delays) = k - 1
            /\ retryPc = "done"
            /\ retryResult.kind = "rejected"
            /\ retryResult.error = lastError
            /\ retryResult.error.message = opCalls[k].error.message
            /\ opCalls[k].error.isError => retryResult.error = opCalls[k].error

C2_Witness ==
    /\ config.maxAttempts = 3
    /\ config.retryCondition = "default"
    /\ FailsFatally(1)
    /\ Len(opCalls) = 1
    /\ delays = <<>>
    /\ retryPc = "done"

----------------------------------------------------------------------------
(* Claims about CircuitBreaker                                             *)

\* the step is the execute call c passing the gate or being refused by it
ExecuteStepOf(c) == calls[c].status = "new" /\ calls'[c].status # "new"

\* the step is the operation of call c resolving / rejecting
SuccessStepOf(c) == calls[c].status = "running" /\ calls'[c].status = "resolved"
FailureStepOf(c) == calls[c].status = "running" /\ calls'[c].status = "rejected"

AllFailed == \A i \in 1..Len(history) : history[i] = "rejected"

\* C4: on a fresh breaker with failureThreshold = N, after k failing execute
\* calls issued one after another the state is closed for k < N and open
\* for k = N.
C4_OpensAtThreshold ==
    (~overlapped /\ Running = {} /\ AllFailed /\ Len(history) <= failureThreshold) =>
        /\ failures = Len(history)
        /\ state = IF Len(history) < failureThreshold THEN "closed" ELSE "open"

C4_Witness ==
    /\ failureThreshold = 2
    /\ history = <<"rejected", "rejected">>
    /\ ~overlapped
    /\ Running = {}
    /\ state = "open"

\* C5: an execute call made while the breaker is open and the recovery
\* period has not elapsed is rejected with 'Circuit breaker is open', does
\* not invoke the operation, and leaves state, failures and lastFailureTime
\* as they were.
C5_OpenGateRejects ==
    [][\A c \in CallIds :
          (ExecuteStepOf(c) /\ state = "open"
              /\ now - lastFailureTime <= recoveryTimeMs) =>
              /\ calls'[c].status = "gated"
              /\ calls'[c].error = S_CircuitOpen
              /\ invoked' = invoked
              /\ state' = state
              /\ failures' = failures
              /\ lastFailureTime' = lastFailureTime]_vars

C5_Witness ==
    /\ state = "open"
    /\ now - lastFailureTime = recoveryTimeMs
    /\ Len(history) >= 1
    /\ history[Len(history)] = "gated"
    /\ \E c \in CallIds : calls[c].error = S_CircuitOpen

\* C6: the state leaves open only for half-open, only in a step that is an
\* execute call made when now - lastFailureTime > recoveryTimeMs, and that
\* call invokes the operation; half-open is entered in no other way, and a
\* step in which only time passes leaves the state as it is.
C6_LazyHalfOpen ==
    [][/\ (state = "open" /\ state' # "open") =>
              /\ state' = "half-open"
              /\ now - lastFailureTime > recoveryTimeMs
              /\ invoked' = invoked + 1
              /\ \E c \in CallIds :
                     /\ ExecuteStepOf(c)
                     /\ calls'[c].status = "running"
       /\ (state # "half-open" /\ state' = "half-open") => state = "open"
       /\ now' # now => state' = state]_vars

C6_Witness ==
    /\ state = "half-open"
    /\ now - lastFailureTime > recoveryTimeMs
    /\ \E c \in CallIds :
           calls[c].status = "running" /\ calls[c].admitted = "half-open"

\* C7: an operation that resolves while the breaker is half-open sets the
\* state to closed and failures to 0, whatever successThreshold is.
C7_OneSuccessCloses ==
    [][\A c \in CallIds :
          (SuccessStepOf(c) /\ state = "half-open") =>
              (state' = "closed" /\ failures' = 0)]_vars

C7_Witness ==
    /\ successThreshold = 3
    /\ state = "closed"
    /\ failures = 0
    /\ Cardinality({i \in 1..Len(history) : history[i] = "resolved"}) = 1
    /\ \E c \in CallIds :
           calls[c].status = "resolved" /\ calls[c].admitted = "half-open"

\* C8: an operation that rejects while the breaker is half-open sets the
\* state to open and lastFailureTime to the time of the failure, and an
\* execute call made within recoveryTimeMs of that failure is refused
\* without invoking its operation.
C8_HalfOpenFailureReopens ==
    [][\A c \in CallIds :
          /\ (FailureStepOf(c) /\ state = "half-open") =>
                 (state' = "open" /\ lastFailureTime' = now)
          /\ (ExecuteStepOf(c) /\ halfOpenFailAt >= 0
                  /\ now - halfOpenFailAt <= recoveryTimeMs) =>
                 (calls'[c].status = "gated" /\ invoked' = invoked)]_vars

C8_Witness ==
    /\ halfOpenFailAt >= 0
    /\ lastFailureTime = halfOpenFailAt
    /\ now - halfOpenFailAt <= recoveryTimeMs
    /\ state = "open"
    /\ Running = {}
    /\ Len(history) >= 3
    /\ history[Len(history)] = "gated"
    /\ history[Len(history) - 1] = "rejected"

----------------------------------------------------------------------------
(* Claims about PromisePool                                                *)

\* the tasks whose factory has been invoked and whose promise has not settled
Unsettled == {t \in AddIds : tasks[t] = "pending"}

\* C9: under every interleaving of add calls, settlements and resumptions,
\* the number of tasks started and not yet settled never exceeds concurrency.
C9_PoolBound == Cardinality(Unsettled) <= concurrency

\* two add calls that both had to wait run their tasks side by side after
\* two tasks settled, with concurrency 2
C9_Witness ==
    /\ concurrency = 2
    /\ Cardinality(Unsettled) = 2
    /\ \A t \in Unsettled : adds[t].waited
    /\ Cardinality({t \in AddIds : tasks[t] = "fulfilled"}) = 2

----------------------------------------------------------------------------
(* Claims about processBatch                                               *)

\* C10: when processBatch resolves, its result is as long as items and its
\* i-th element is the processor's result for items[i], whatever batchSize,
\* concurrency and the order of completion are.
C10_ResultsInInputOrder ==
    (batchPc = "done" /\ batchResult.kind = "resolved") =>
        /\ Len(batchResult.value) = Len(items)
        /\ \A i \in Indices : batchResult.value[i] = Processor(items[i])

\* a batch of two different items that completed in reverse order
C10_Witness ==
    /\ batchPc = "done"
    /\ batchResult.kind = "resolved"
    /\ Len(items) = 3
    /\ options.batchSize = 2
    /\ items[1] # items[2]
    /\ completionOrder = <<2, 1, 3>>

----------------------------------------------------------------------------
(* Claims about retryWithBackoff: order of events, onRetry, delays         *)

InTrace(e) == \E i \in 1..Len(retryTrace) : retryTrace[i] = e

\* e1 is in the trace and e2 comes later in it
Before(e1, e2) ==
    \E i \in 1..Len(retryTrace) :
        /\ retryTrace[i] = e1
        /\ \E j \in (i + 1)..Len(retryTrace) : retryTrace[j] = e2

Attempts == 1..MaxAttempts + 1

\* C16: at most one invocation of the operation is outstanding, and attempt
\* a + 1 is started only after attempt a has settled and the sleep that
\* follows it has ended.
C16_SequentialAttempts ==
    /\ Cardinality({k \in 1..Len(opCalls) : opCalls[k].outcome = "pending"}) <= 1
    /\ retryPc = "sleep" => \A k \in 1..Len(opCalls) : opCalls[k].outcome # "pending"
    /\ \A a \in Attempts :
           InTrace(Event("invoke", a + 1)) =>
               /\ Before(Event("invoke", a), Event("settle", a))
               /\ Before(Event("settle", a), Event("sleepStart", a))
               /\ Before(Event("sleepStart", a), Event("sleepEnd", a))
               /\ Before(Event("sleepEnd", a), Event("invoke", a + 1))

C16_Witness ==
    /\ retryPc = "await"
    /\ Len(opCalls) = 3
    /\ LastCall.outcome = "pending"
    /\ InTrace(Event("sleepEnd", 2))

\* C17: onRetry is called once per invocation but the last; its k-th call
\* gets attempt number k and the error of attempt k (as lastError holds it);
\* it is not called for the last failed attempt, for a failure the predicate
\* rejects, or after a success.
C17_OnRetryCalls ==
    /\ Len(opCalls) = 0 => onRetryCalls = <<>>
    /\ (retryPc = "done" /\ Len(opCalls) >= 1) =>
           Len(onRetryCalls) = Len(opCalls) - 1
    /\ \A k \in 1..Len(onRetryCalls) :
           /\ onRetryCalls[k][1] = k
           /\ k < config.maxAttempts
           /\ k <= Len(opCalls)
           /\ opCalls[k].outcome = "rejected"
           /\ onRetryCalls[k][2].message = opCalls[k].error.message
           /\ opCalls[k].error.isError => onRetryCalls[k][2] = opCalls[k].error
           /\ RetryCondition(config, onRetryCalls[k][2])

C17_Witness ==
    /\ retryPc = "done"
    /\ retryResult.kind = "resolved"
    /\ Len(opCalls) = 3
    /\ Len(onRetryCalls) = 2
    /\ onRetryCalls[2][1] = 2

\* attempt a is below the attempt at which maxDelayMs is reached
BelowCap(a) ==
    config.baseDelayMs * Pow(config.backoffMultiplier, a - 1) < config.maxDelayMs

\* C18 as claimed: with the jitter included, the delay after attempt a + 1
\* is no less than the delay after attempt a while a is below the cap, and
\* no delay exceeds maxDelayMs + jitterMs.
C18_DelaysNonDecreasing ==
    \A a \in 1..Len(delays) :
        /\ delays[a] <= config.maxDelayMs + config.jitterMs
        /\ (a < Len(delays) /\ BelowCap(a)) => delays[a + 1] >= delays[a]

\* C18, amended: no delay exceeds maxDelayMs + jitterMs; the delay after
\* attempt a + 1 is no less than the delay after attempt a minus jitterMs,
\* and no less than the delay after attempt a when jitterMs is 0.
C18_DelaysBounded ==
    \A a \in 1..Len(delays) :
        /\ delays[a] <= config.maxDelayMs + config.jitterMs
        /\ a < Len(delays) =>
               /\ delays[a + 1] >= delays[a] - config.jitterMs
               /\ config.jitterMs = 0 => delays[a + 1] >= delays[a]

C18_Witness ==
    /\ Len(delays) = 3
    /\ config.jitterMs = 2
    /\ delays[2] < delays[1]
    /\ delays[3] = config.maxDelayMs + config.jitterMs

\* C20 as claimed: onRetry for attempt a is called after the sleep that
\* follows attempt a has ended.
C20_SleepThenOnRetry ==
    \A a \in Attempts :
        InTrace(Event("onRetry", a)) =>
            Before(Event("sleepEnd", a), Event("onRetry", a))

\* C20, amended: after attempt a fails, onRetry is called, then the sleep
\* starts, then the sleep ends, then attempt a + 1 starts.
C20_OnRetryThenSleep ==
    \A a \in Attempts :
        /\ InTrace(Event("onRetry", a)) =>
               /\ Before(Event("settle", a), Event("onRetry", a))
               /\ ~Before(Event("sleepStart", a), Event("onRetry", a))
               /\ ~Before(Event("sleepEnd", a), Event("onRetry", a))
        /\ InTrace(Event("invoke", a + 1)) =>
               /\ Before(Event("onRetry", a), Event("sleepStart", a))
               /\ Before(Event("sleepStart", a), Event("sleepEnd", a))
               /\ Before(Event("sleepEnd", a), Event("invoke", a + 1))

C20_Witness ==
    /\ Len(opCalls) = 2
    /\ Before(Event("onRetry", 1), Event("sleepEnd", 1))
    /\ Before(Event("sleepEnd", 1), Event("invoke", 2))

----------------------------------------------------------------------------
(* Claims about processBatch: progress and concurrency                     *)

\* C11: the k-th call of onProgress has the arguments (k, items.length),
\* and a run over n items that resolves (every processor invocation having
\* succeeded) has made exactly n calls, whatever the order of completion.
C11_ProgressCounts ==
    /\ \A k \in 1..Len(progress) : progress[k] = <<k, Len(items)>>
    /\ Len(progress) <= Len(items)
    /\ (batchPc = "done" /\ batchResult.kind = "resolved") =>
           Len(progress) = Len(items)

C11_Witness ==
    /\ batchPc = "done"
    /\ batchResult.kind = "resolved"
    /\ Len(items) = 3
    /\ completionOrder = <<2, 1, 3>>
    /\ progress = << <<1, 3>>, <<2, 3>>, <<3, 3>> >>

\* the processor invocations started and not yet settled
InFlight == {j \in Indices : itemPc[j] = "processing"}

\* C12: at no moment are more than options.concurrency processor
\* invocations in flight.
C12_ConcurrencyBound == Cardinality(InFlight) <= options.concurrency

----------------------------------------------------------------------------
(* Claims about PromisePool: order of start                                *)

----------------------------------------------------------------------------
(* Claims about withTimeout                                                *)

\* C13: withTimeout settles with the outcome of the event that happens
\* first: the wrapped promise's value or error when the promise settles
\* first, a rejection with the timeout message (the default one when none
\* is given) when the timer fires first; once it has settled, the later
\* event does not change its outcome.
C13_FirstSettlementWins ==
    /\ [](wtEvents = <<>> => wtResult = NoResult)
    /\ [](wtEvents # <<>> /\ Head(wtEvents).source = "promise" => wtResult = promise)
    /\ [](wtEvents # <<>> /\ Head(wtEvents).source = "timer" =>
             /\ wtResult.kind = "rejected"
             /\ wtResult.error.isError
             /\ wtResult.error.message =
                    IF timeoutMessage = Undefined THEN S_OperationTimedOut
                    ELSE timeoutMessage)
    /\ [][wtResult.kind # "pending" => wtResult' = wtResult]_vars

\* the timer fired first and the wrapped promise fulfilled afterwards
C13_Witness ==
    /\ Len(wtEvents) = 2
    /\ wtEvents[1].source = "timer"
    /\ promise.kind = "fulfilled"
    /\ wtResult.kind = "rejected"

----------------------------------------------------------------------------
(* Claims about debounce                                                   *)

\* the k-th call is followed by another call less than waitMs later
FollowedWithinWait(k) ==
    k < Len(dbCalls) /\ dbCalls[k + 1].time < dbCalls[k].time + waitMs

InvocationsOf(k) == {i \in 1..Len(dbInvocations) : dbInvocations[i].call = k}

\* C14: every invocation of func belongs to a call that is not followed by
\* another call within waitMs, carries that call's arguments and happens
\* waitMs after that call (when its timer runs); a call followed by another
\* call within waitMs never causes an invocation, a call that is not is
\* invoked once; at most one timer is pending.
C14_DebounceLastCallWins ==
    /\ Cardinality(dbTimers) <= 1
    /\ \A i \in 1..Len(dbInvocations) :
          LET inv == dbInvocations[i]
              call == dbCalls[inv.call]
          IN /\ ~FollowedWithinWait(inv.call)
             /\ inv.args = call.args
             /\ inv.time >= call.time + waitMs
             /\ inv.time <= call.time + waitMs + MaxLateness
    /\ \A k \in 1..Len(dbCalls) :
          /\ Cardinality(InvocationsOf(k)) <= 1
          /\ FollowedWithinWait(k) => InvocationsOf(k) = {}
          /\ (/\ dbNow > dbCalls[k].time + waitMs + MaxLateness
              /\ k < Len(dbCalls) => dbCalls[k + 1].time > dbCalls[k].time + waitMs + MaxLateness)
                => Cardinality(InvocationsOf(k)) = 1

\* a burst of three calls, each less than waitMs after the one before, has
\* caused one invocation, with the arguments of the third call
C14_Witness ==
    /\ Len(dbCalls) = 3
    /\ FollowedWithinWait(1)
    /\ FollowedWithinWait(2)
    /\ dbCalls[3].args # dbCalls[2].args
    /\ Len(dbInvocations) = 1
    /\ dbInvocations[1].call = 3
    /\ dbInvocations[1].args = dbCalls[3].args

----------------------------------------------------------------------------
(* Claims about throttle                                                   *)

\* the k-th call is made less than limitMs after an earlier invocation
InCooldown(k) ==
    \E i \in 1..Len(thInvocations) :
        /\ thInvocations[i].call < k
        /\ thCalls[k].time < thInvocations[i].time + limitMs

\* C15: a call made during the cooldown of limitMs that follows an
\* invocation of func does not invoke func, a call that invokes func does so
\* at once with its own arguments, and two invocations of func are at
\* least limitMs apart.
C15_ThrottleSpacing ==
    /\ \A k \in 1..Len(thCalls) : InCooldown(k) => ~thCalls[k].invoked
    /\ \A i \in 1..Len(thInvocations) :
          /\ thInvocations[i].time = thCalls[thInvocations[i].call].time
          /\ thInvocations[i].args = thCalls[thInvocations[i].call].args
    /\ \A i, j \in 1..Len(thInvocations) :
          i < j => thInvocations[j].time >= thInvocations[i].time + limitMs

----------------------------------------------------------------------------
(* Claims about CircuitBreaker: overlapping calls                          *)

\* the operations in flight that execute let through in the half-open state
HalfOpenTrials == {c \in Running : calls[c].admitted = "half-open"}

\* C21: at most one operation admitted in the half-open state is in flight
\* at any time.
C21_SingleTrial == Cardinality(HalfOpenTrials) <= 1

\* the outcomes of the operations that settled, in the order they settled;
\* the last n of them are failures
Settled == SelectSeq(history, LAMBDA h : h # "gated")

LastFailed(n) ==
    /\ Len(Settled) >= n
    /\ \A i \in 1..Len(Settled) : i > Len(Settled) - n => Settled[i] = "rejected"

\* C22: the breaker goes from closed to open only when the last
\* failureThreshold operations that settled have all failed (calls made one
\* after another).
C22_OpensOnConsecutiveFailures ==
    [][(~overlapped' /\ state = "closed" /\ state' = "open") => LastFailed(failureThreshold)']_vars

\* C27: closed implies failures < failureThreshold, open and half-open imply
\* failures >= failureThreshold, and failures is never negative.
C27_StateMatchesFailures ==
    /\ failures >= 0
    /\ state = "closed" => failures < failureThreshold
    /\ state \in {"open", "half-open"} => failures >= failureThreshold

\* calls overlapped and the failures of operations admitted together have
\* taken the counter beyond the threshold
C27_Witness ==
    /\ overlapped
    /\ state = "open"
    /\ failures > failureThreshold

\* C28: a step that closes the half-open breaker is the success of an
\* operation that was admitted in the half-open state.
C28_ClosedByTrialOnly ==
    [][\A c \in CallIds :
          (SuccessStepOf(c) /\ state = "half-open" /\ state' = "closed")
              => calls[c].admitted = "half-open"]_vars

----------------------------------------------------------------------------
(* Claims about CircuitBreaker: recovery                                   *)

\* execute lets a call through (the breaker is not open, or the recovery
\* period is over)
AdmittedStep == \E c \in CallIds : ExecuteStepOf(c) /\ calls'[c].status = "running"

FailingStep == \E c \in CallIds : FailureStepOf(c)

\* C24: when calls keep being made at times execute lets them through (the
\* recovery period being over) and operations succeed from some point on,
\* the breaker reaches the closed state and remains closed, also when calls
\* overlap.
C24_Recovers ==
    ([]<><<AdmittedStep>>_vars /\ <>[][~FailingStep]_vars) => <>[](state = "closed")

\* the breaker was open, calls overlapped, and the success of an operation
\* admitted in the half-open state has closed it
C24_Witness ==
    /\ overlapped
    /\ state = "closed"
    /\ failures = 0
    /\ \E c \in CallIds : calls[c].admitted = "half-open" /\ calls[c].status = "resolved"

----------------------------------------------------------------------------
(* Claims about retryWithBackoff: errors of withTimeout                    *)

\* the k-th invocation was rejected by withTimeout's timer: with the default
\* message under the default predicate, with the message executeGroqRequest
\* passes under processWithGemini's predicate
TimedOut(k) ==
    /\ opCalls[k].outcome = "rejected"
    /\ opCalls[k].error.isError
    /\ \/ /\ config.retryCondition = "default"
          /\ opCalls[k].error.message = TimeoutRejection(Undefined).error.message
       \/ /\ config.retryCondition = "gemini"
          /\ opCalls[k].error.message = TimeoutRejection(S_AIRequestTimedOut).error.message

\* C25: an invocation that fails with withTimeout's error while attempts
\* remain is not the last one: the run does not end with it.
C25_TimeoutRetried ==
    \A k \in 1..Len(opCalls) :
        (TimedOut(k) /\ k < config.maxAttempts) => ~(retryPc = "done" /\ Len(opCalls) = k)

----------------------------------------------------------------------------
(* Claims about processWithGemini                                          *)

\* the processWithGemini calls whose retry run was rejected
FailedRuns == {c \in CallIds : runs[c].pc = "done" /\ calls[c].status = "rejected"}

\* the step is a failed provider attempt of call c that will be retried
RetriedAttemptOf(c) == runs[c].pc = "request" /\ runs'[c].pc = "backoff"

\* C23: the failure count of the breaker rises by one exactly in a step in
\* which the retry run of a processWithGemini call is rejected, a failed
\* provider attempt that is retried leaves the breaker as it is, and the
\* breaker is open (or half-open) only when at least failureThreshold
\* processWithGemini calls have failed.
C23_BreakerCountsRuns ==
    /\ [][failures' > failures =>
             /\ failures' = failures + 1
             /\ \E c \in CallIds : c \notin FailedRuns /\ c \in FailedRuns']_vars
    /\ [][\A c \in CallIds :
             RetriedAttemptOf(c) => UNCHANGED <<failures, state, lastFailureTime>>]_vars
    /\ [](state \in {"open", "half-open"} => Cardinality(FailedRuns) >= failureThreshold)

\* the breaker has opened after failureThreshold = 2 failed calls made of
\* more than two provider requests
C23_Witness ==
    /\ failureThreshold = 2
    /\ state = "open"
    /\ Cardinality(FailedRuns) = 2
    /\ Len(requests) > 2

----------------------------------------------------------------------------
(* Claims about PromisePool: failures of other tasks                       *)

\* C29: an add call does not reject with the error of another task, and it
\* does not settle without its factory having been invoked.
C29_FailuresIsolated ==
    \A a \in AddIds :
        adds[a].pc = "failed" => (adds[a].error = a /\ tasks[a] # "none")

----------------------------------------------------------------------------
(* Claims about processBatch: a rejecting processor                        *)

\* the chunk of items[j], counted from 0
ChunkOf(j) == (j - 1) \div options.batchSize

RejectedItems == {j \in Indices : itemPc[j] = "rejected"}

\* the items the processor rejected for, in the order of the rejections
RejectionOrder == SelectSeq(completionOrder, LAMBDA j : j \in RejectedItems)

PassedToProcessor == {processorCalls[k] : k \in 1..Len(processorCalls)}

\* C30: when the processor rejects for an item, processBatch rejects with
\* the error of that item (of the first one to reject, when several items of
\* the chunk reject), no item of a later chunk is ever passed to the
\* processor, and an item is passed to the processor only after every item
\* of the chunks before its own has succeeded.
C30_RejectionStopsBatch ==
    /\ RejectedItems # {} =>
          /\ batchPc = "done"
          /\ batchResult = [kind |-> "rejected", error |-> Head(RejectionOrder)]
    /\ \A j \in RejectedItems : \A k \in PassedToProcessor : ChunkOf(k) <= ChunkOf(j)
    /\ \A k \in PassedToProcessor :
          \A i \in Indices : ChunkOf(i) < ChunkOf(k) => itemPc[i] = "fulfilled"

\* three items in chunks of one: the first chunk succeeded, the item of the
\* second chunk was rejected and the third chunk never started
C30_Witness ==
    /\ Len(items) = 3
    /\ options.batchSize = 1
    /\ itemPc[1] = "fulfilled"
    /\ itemPc[2] = "rejected"
    /\ itemPc[3] = "idle"
    /\ batchResult = [kind |-> "rejected", error |-> 2]

====
